---- MODULE Spec2Model ----
(***************************************************************************)
(* A model of subvertpy's remote-access binding (src/ra.c, src/util.c,     *)
(* src/util.h): the RemoteAccess session, the Reporter and Editor objects  *)
(* it hands out, and the callbacks it installs into libsvn.                *)
(*                                                                         *)
(* libsvn and APR are not part of the repository.  Whatever they decide    *)
(* (whether an svn_ra_* or editor call returns an svn_error_t, whether a   *)
(* path can be locked) is an input chosen with \E.  Values read from       *)
(* uninitialised C variables are chosen with \E as well.                   *)
(*                                                                         *)
(* The binding keeps no protocol state of its own.  The fields marked      *)
(* "ghost" below record the caller's view of the protocol (which handles   *)
(* were closed, whether the edit was aborted) so that the properties can   *)
(* speak about it; no action reads them to decide what to do.              *)
(***************************************************************************)
EXTENDS Integers, Sequences, FiniteSets, TLC

\* ------------------------------------------------------------------ bounds
MaxObjs == 3        \* EditorObjects (edit, directory and file handles) alive in a run
MaxReport == 2      \* entries one Reporter forwards
MaxPools == 3       \* pools that outlive the operation that created them
MaxReporters == 1   \* Reporters handed out in a run
MaxRev == 3         \* revisions of the repository (1..MaxRev)
MaxMask == 63       \* largest dirent_fields value passed to get_dir
MaxFiles == 1       \* files libsvn opens in one driven edit
MaxStreams == 2     \* window streams libsvn starts in one driven edit
MaxWindows == 2     \* windows libsvn sends in one stream
MaxLimit == 2       \* largest limit passed to get_log
MaxProgress == 2    \* progress reports libsvn makes during one operation

Paths == {"a", "b"}
Revs == 1..MaxRev
Tokens == {"omitted", "None", "tok"}
Urls == {"u", "v"}

VARIABLES
    ra,         \* RemoteAccessObject: [live, url, pool]
    pools,      \* apr pools that outlived their creating call: [parent, live, destroys, owner]
    reporters,  \* ReporterObjects: [pool, live, done (ghost), failed (ghost), report]
    objs,       \* EditorObjects: [type, edit, parent, pool, live; ghost: open, stream]
    edits,      \* one per Editor_Type object: [obj, callback; ghost: aborted, closed, failed]
    driven,     \* the caller's objects that py_editor holds as batons while libsvn
                \* drives an edit: [files, streams]
    last        \* the last API call: what was passed, what reached libsvn, what came back

vars == <<ra, pools, reporters, objs, edits, driven, last>>

\* ----------------------------------------------------------------- helpers
Max(a, b) == IF a > b THEN a ELSE b
Min(a, b) == IF a < b THEN a ELSE b

\* util.c check_error: TRUE when the svn_error_t* is NULL.  err is TRUE for a
\* non-NULL error.
check_error(err) == ~err

\* util.c py_svn_error: the Python exception is dropped and NULL, "no error", is
\* what libsvn gets back.  TRUE stands for a non-NULL svn_error_t.
py_svn_error == FALSE

\* util.c Pool: a new pool under parent (0 is NULL).
Pool(parent) == [parent |-> parent, live |-> TRUE, destroys |-> 0, owner |-> "none"]

\* apr_pool_destroy on a pool record that is not in `pools` yet.
DestroyTemp(tp) == [tp EXCEPT !.live = FALSE, !.destroys = @ + 1]

RECURSIVE IsUnder(_, _, _)
\* TRUE when pool i is p or a descendant of p in ps.
IsUnder(ps, i, p) ==
    IF i = p THEN TRUE
    ELSE IF i = 0 THEN FALSE
    ELSE IsUnder(ps, ps[i].parent, p)

\* apr_pool_destroy(p): p is destroyed once more, and APR destroys with it every
\* pool created under it.
apr_pool_destroy(ps, p) ==
    [i \in DOMAIN ps |->
        IF i = p THEN [ps[i] EXCEPT !.live = FALSE, !.destroys = @ + 1]
        ELSE IF IsUnder(ps, i, p) THEN [ps[i] EXCEPT !.live = FALSE]
        ELSE ps[i]]

\* util.h RUN_SVN_WITH_POOL: on an error the pool is destroyed and the caller
\* returns NULL; otherwise the pool is left alone.
RUN_SVN_WITH_POOL(tp, err) == IF ~check_error(err) THEN DestroyTemp(tp) ELSE tp

\* ra.c new_editor_object: the object takes the editor, the baton and a borrowed
\* pointer to pool; the ghost fields start "open, no text-delta stream begun".
new_editor_object(type, edit, parent, pool) ==
    [type |-> type, edit |-> edit, parent |-> parent, pool |-> pool,
     live |-> TRUE, open |-> TRUE, stream |-> "none"]

NoCall == [op |-> "none"]

\* ra.c ra_new (after a successful open): the session holds its url and its pool.
Init ==
    /\ ra = [live |-> TRUE, url |-> "u", pool |-> 1, progress_func |-> "None",
             refs |-> [url |-> 1, auth |-> 1]]
    /\ pools = <<[parent |-> 0, live |-> TRUE, destroys |-> 0, owner |-> "session"]>>
    /\ reporters = <<>>
    /\ objs = <<>>
    /\ edits = <<>>
    /\ driven = [files |-> <<>>, streams |-> <<>>]
    /\ last = NoCall

\* ------------------------------------------------------------ Editor objects
Live(o) == o \in DOMAIN objs /\ objs[o].live
IsDir(o) == Live(o) /\ objs[o].type = "Dir"
IsFile(o) == Live(o) /\ objs[o].type = "File"
IsEdit(o) == Live(o) /\ objs[o].type = "Editor"

\* ra.c py_editor_methods, py_dir_editor_methods and py_file_editor_methods: the
\* names each of the three types answers to.
py_editor_methods == {"abort", "close", "open_root", "set_target_revision"}
py_dir_editor_methods ==
    {"absent_file", "absent_directory", "delete_entry", "add_file", "open_file",
     "add_directory", "open_directory", "close", "change_prop"}
py_file_editor_methods == {"change_prop", "close", "apply_textdelta"}

\* The method table of a handle of the given type.
Methods(type) ==
    IF type = "Editor" THEN py_editor_methods
    ELSE IF type = "Dir" THEN py_dir_editor_methods
    ELSE py_file_editor_methods

\* ghost: a handle produced from o that no close() has succeeded on yet.
HasOpenChild(o) == \E c \in DOMAIN objs : objs[c].parent = o /\ objs[c].open

\* ghost: what the caller's view of the protocol was when the call was made.
Pre(o) ==
    LET e == objs[o].edit IN
    [aborted |-> edits[e].aborted, closed |-> edits[e].closed,
     failed |-> edits[e].failed, open |-> objs[o].open,
     kids |-> HasOpenChild(o), stream |-> objs[o].stream,
     poolLive |-> pools[objs[o].pool].live]

\* A binding that kept the aborted state of the edit and refused calls made after
\* abort_edit.
Returned_RefusesAborted(op, o, parsed, err, arg) ==
    LET sent == parsed /\ ~Pre(o).aborted IN
    [op |-> op, obj |-> o, parsed |-> parsed, fwd |-> IF sent THEN 1 ELSE 0,
     err |-> sent /\ err, ok |-> sent /\ check_error(err),
     arg |-> IF parsed THEN arg ELSE "none", pre |-> Pre(o)]

\* What a method returns: NULL (ok = FALSE) when the arguments do not parse or
\* check_error sees an error, Py_None or a new object otherwise.  fwd counts the
\* calls made to the underlying svn_delta_editor_t.
Returned(op, o, parsed, err, arg) ==
    [op |-> op, obj |-> o, parsed |-> parsed, fwd |-> IF parsed THEN 1 ELSE 0,
     err |-> parsed /\ err, ok |-> parsed /\ check_error(err),
     arg |-> IF parsed THEN arg ELSE "none", pre |-> Pre(o)]

\* ghost: the edit remembers that one of its calls failed.
NoteResult(o, ok) == [edits EXCEPT ![objs[o].edit].failed = @ \/ ~ok]

\* A method that returns Py_None and creates nothing: only `last` and the ghost
\* `failed` flag change.
Plain(op, o, parsed, err, arg) ==
    /\ last' = Returned(op, o, parsed, err, arg)
    /\ edits' = NoteResult(o, parsed /\ check_error(err))
    /\ UNCHANGED <<driven, ra, pools, reporters, objs>>

\* A binding in which a failed call ended the edit: nothing is opened, and nothing
\* is forwarded, once a call of the edit has failed.
Opens_RefusesFailed(op, o, parsed, err, type) ==
    LET sent == parsed /\ ~Pre(o).failed IN
    /\ Len(objs) < MaxObjs
    /\ last' = [Returned(op, o, parsed, err, "none") EXCEPT
                   !.fwd = IF sent THEN 1 ELSE 0,
                   !.err = sent /\ err,
                   !.ok = sent /\ check_error(err)]
    /\ edits' = NoteResult(o, sent /\ check_error(err))
    /\ objs' = IF sent /\ check_error(err)
               THEN Append(objs, new_editor_object(type, objs[o].edit, o, objs[o].pool))
               ELSE objs
    /\ UNCHANGED <<driven, ra, pools, reporters>>

\* A method that returns a new handle on success: new_editor_object with the
\* child baton and the parent's own pool.
Opens(op, o, parsed, err, type) ==
    /\ Len(objs) < MaxObjs
    /\ last' = Returned(op, o, parsed, err, "none")
    /\ edits' = NoteResult(o, parsed /\ check_error(err))
    /\ objs' = IF parsed /\ check_error(err)
               THEN Append(objs, new_editor_object(type, objs[o].edit, o, objs[o].pool))
               ELSE objs
    /\ UNCHANGED <<driven, ra, pools, reporters>>

\* ra.c py_file_editor_apply_textdelta: apply_textdelta of the editor is called
\* with the handle's baton, and the window handler and baton it gives back are
\* wrapped for the caller.  ghost: the handle has a window stream that no
\* terminating call has ended.
py_file_editor_apply_textdelta(o, parsed, err) ==
    /\ IsFile(o)
    /\ last' = Returned("apply_textdelta", o, parsed, err, "none")
    /\ edits' = NoteResult(o, parsed /\ check_error(err))
    /\ objs' = [objs EXCEPT ![o].stream = IF parsed /\ check_error(err)
                                          THEN "pending" ELSE @]
    /\ UNCHANGED <<driven, ra, pools, reporters>>

\* ra.c py_file_editor_change_prop: the parsed value is passed on.
py_file_editor_change_prop(o, parsed, err, value) ==
    /\ IsFile(o)
    /\ last' = Returned("file_change_prop", o, parsed, err, value) @@ [value |-> value]
    /\ edits' = NoteResult(o, parsed /\ check_error(err))
    /\ UNCHANGED <<driven, ra, pools, reporters, objs>>

\* A binding that refused to close a directory while a child of it is open.
Closes_RefusesOpenChild(op, o, parsed, err) ==
    LET sent == parsed /\ ~HasOpenChild(o) IN
    /\ last' = [Returned(op, o, parsed, err, "none") EXCEPT
                   !.fwd = IF sent THEN 1 ELSE 0,
                   !.err = sent /\ err,
                   !.ok = sent /\ check_error(err)]
    /\ edits' = NoteResult(o, sent /\ check_error(err))
    /\ objs' = [objs EXCEPT ![o].open = @ /\ ~(sent /\ check_error(err))]
    /\ UNCHANGED <<driven, ra, pools, reporters>>

\* A binding that refused to close a handle a second time.
Closes_Once(op, o, parsed, err) ==
    LET sent == parsed /\ ~(objs[o].open = FALSE) IN
    /\ last' = [Returned(op, o, parsed, err, "none") EXCEPT
                   !.fwd = IF sent THEN 1 ELSE 0,
                   !.err = sent /\ err,
                   !.ok = sent /\ check_error(err)]
    /\ edits' = NoteResult(o, sent /\ check_error(err))
    /\ objs' = [objs EXCEPT ![o].open = @ /\ ~(sent /\ check_error(err))]
    /\ UNCHANGED <<driven, ra, pools, reporters>>

\* A binding that refused to close a file whose window stream has not ended.
Closes_RefusesPending(op, o, parsed, err) ==
    LET sent == parsed /\ objs[o].stream # "pending" IN
    /\ last' = [Returned(op, o, parsed, err, "none") EXCEPT
                   !.fwd = IF sent THEN 1 ELSE 0,
                   !.err = sent /\ err,
                   !.ok = sent /\ check_error(err)]
    /\ edits' = NoteResult(o, sent /\ check_error(err))
    /\ objs' = [objs EXCEPT ![o].open = @ /\ ~(sent /\ check_error(err))]
    /\ UNCHANGED <<driven, ra, pools, reporters>>

\* A close method: close_file/close_directory is called with the handle's baton
\* whatever was done with the handle before.
Closes(op, o, parsed, err) ==
    /\ last' = Returned(op, o, parsed, err, "none")
    /\ edits' = NoteResult(o, parsed /\ check_error(err))
    /\ objs' = [objs EXCEPT ![o].open = @ /\ ~(parsed /\ check_error(err))]
    /\ UNCHANGED <<driven, ra, pools, reporters>>

\* ra.c py_file_editor_close
py_file_editor_close(o, parsed, err) ==
    /\ IsFile(o)
    /\ Closes("file_close", o, parsed, err)

\* ra.c py_dir_editor_delete_entry
py_dir_editor_delete_entry(o, parsed, err) ==
    /\ IsDir(o)
    /\ Plain("delete_entry", o, parsed, err, "none")

\* ra.c py_dir_editor_add_directory
py_dir_editor_add_directory(o, parsed, err) ==
    /\ IsDir(o)
    /\ Opens("add_directory", o, parsed, err, "Dir")

\* ra.c py_dir_editor_open_directory
py_dir_editor_open_directory(o, parsed, err) ==
    /\ IsDir(o)
    /\ Opens("open_directory", o, parsed, err, "Dir")

\* ra.c py_dir_editor_change_prop: p_c_value is never set, so the value that
\* reaches change_dir_prop is whatever the pointer holds.
py_dir_editor_change_prop(o, parsed, err, value, garbage) ==
    /\ IsDir(o)
    /\ last' = Returned("dir_change_prop", o, parsed, err, garbage) @@ [value |-> value]
    /\ edits' = NoteResult(o, parsed /\ check_error(err))
    /\ UNCHANGED <<driven, ra, pools, reporters, objs>>

\* ra.c py_dir_editor_close: METH_NOARGS, nothing to parse.
py_dir_editor_close(o, err) ==
    /\ IsDir(o)
    /\ Closes("dir_close", o, TRUE, err)

\* ra.c py_dir_editor_absent_directory
py_dir_editor_absent_directory(o, parsed, err) ==
    /\ IsDir(o)
    /\ Plain("absent_directory", o, parsed, err, "none")

\* A binding whose add_file wrapped the file baton as a directory handle.
py_dir_editor_add_file_AsDirectory(o, parsed, err) ==
    /\ IsDir(o)
    /\ Opens("add_file", o, parsed, err, "Dir")

\* ra.c py_dir_editor_add_file
py_dir_editor_add_file(o, parsed, err) ==
    /\ IsDir(o)
    /\ Opens("add_file", o, parsed, err, "File")

\* ra.c py_dir_editor_open_file
py_dir_editor_open_file(o, parsed, err) ==
    /\ IsDir(o)
    /\ Opens("open_file", o, parsed, err, "File")

\* ra.c py_dir_editor_absent_file
py_dir_editor_absent_file(o, parsed, err) ==
    /\ IsDir(o)
    /\ Plain("absent_file", o, parsed, err, "none")

\* A binding that remembered open_root and refused set_target_revision after it.
py_editor_set_target_revision_BeforeRoot(o, parsed, err) ==
    LET sent == parsed /\ ~(\E c \in DOMAIN objs : objs[c].parent = o) IN
    /\ IsEdit(o)
    /\ last' = [Returned("set_target_revision", o, parsed, err, "none") EXCEPT
                   !.fwd = IF sent THEN 1 ELSE 0,
                   !.err = sent /\ err,
                   !.ok = sent /\ check_error(err)]
    /\ edits' = NoteResult(o, sent /\ check_error(err))
    /\ UNCHANGED <<driven, ra, pools, reporters, objs>>

\* ra.c py_editor_set_target_revision
py_editor_set_target_revision(o, parsed, err) ==
    /\ IsEdit(o)
    /\ Plain("set_target_revision", o, parsed, err, "none")

\* A binding that accepted open_root once per edit, and only while the edit is
\* neither closed nor aborted.
py_editor_open_root_Once(o, parsed, err) ==
    LET sent == /\ parsed
                /\ ~(\E c \in DOMAIN objs : objs[c].parent = o)
                /\ ~Pre(o).closed
                /\ ~Pre(o).aborted
    IN
    /\ IsEdit(o)
    /\ Len(objs) < MaxObjs
    /\ last' = [Returned("open_root", o, parsed, err, "none") EXCEPT
                   !.fwd = IF sent THEN 1 ELSE 0,
                   !.err = sent /\ err,
                   !.ok = sent /\ check_error(err)]
    /\ edits' = NoteResult(o, sent /\ check_error(err))
    /\ objs' = IF sent /\ check_error(err)
               THEN Append(objs, new_editor_object("Dir", objs[o].edit, o, objs[o].pool))
               ELSE objs
    /\ UNCHANGED <<driven, ra, pools, reporters>>

\* ra.c py_editor_open_root
py_editor_open_root(o, parsed, err) ==
    /\ IsEdit(o)
    /\ Opens("open_root", o, parsed, err, "Dir")

\* ra.c py_commit_callback, the svn_commit_callback2_t given to
\* svn_ra_get_commit_editor2 with the caller's callable as baton.  get_commit_editor
\* takes no reference on the callable, so by the time of the commit fn is either
\* still "held" by somebody else or "dangling".  Calling a dangling object is
\* undefined: freed marks the outcomes, the callable having run all the same or
\* nothing of the caller's having run.
py_commit_callback(fn, commit_info, raises, freed) ==
    LET args == <<commit_info.revision, commit_info.date, commit_info.author>> IN
    IF fn = "held"
    THEN [calls |-> <<args>>, error |-> IF raises THEN py_svn_error ELSE FALSE]
    ELSE [calls |-> IF freed = "ran" THEN <<args>> ELSE <<>>, error |-> FALSE]

\* A binding that kept track of the handles of the edit and refused close_edit
\* while one of them is open.
py_editor_close_RefusesOpenHandles(o, err, commit_info, raises, freed) ==
    LET refused == \E c \in DOMAIN objs :
                       objs[c].edit = objs[o].edit /\ objs[c].type # "Editor"
                           /\ objs[c].open
        sent == Returned("close_edit", o, TRUE, err, "none")
    IN
    /\ IsEdit(o)
    /\ last' = (IF refused THEN [sent EXCEPT !.fwd = 0, !.err = FALSE, !.ok = FALSE]
                ELSE sent) @@ [commits |-> <<>>, info |-> commit_info]
    /\ edits' = [NoteResult(o, ~refused /\ check_error(err)) EXCEPT
                    ![objs[o].edit].closed = @ \/ (~refused /\ check_error(err))]
    /\ UNCHANGED <<driven, ra, pools, reporters, objs>>

\* ra.c py_editor_close: METH_NOARGS.  err is the error of the commit itself; the
\* commit editor of libsvn calls the commit callback once the commit went through,
\* and close_edit fails with what the callback returns.
py_editor_close(o, err, commit_info, raises, freed) ==
    LET cb == IF err THEN [calls |-> <<>>, error |-> FALSE]
              ELSE py_commit_callback(edits[objs[o].edit].callback, commit_info,
                                      raises, freed)
        failed == err \/ cb.error
    IN
    /\ IsEdit(o)
    /\ last' = Returned("close_edit", o, TRUE, failed, "none")
                @@ [commits |-> cb.calls, info |-> commit_info]
    /\ edits' = [NoteResult(o, check_error(failed)) EXCEPT
                    ![objs[o].edit].closed = @ \/ check_error(failed)]
    /\ UNCHANGED <<driven, ra, pools, reporters, objs>>

\* ra.c py_editor_abort: METH_NOARGS; nothing of the binding is released or marked.
py_editor_abort(o, err) ==
    /\ IsEdit(o)
    /\ last' = Returned("abort_edit", o, TRUE, err, "none") @@ [commits |-> <<>>]
    /\ edits' = [NoteResult(o, check_error(err)) EXCEPT
                    ![objs[o].edit].aborted = @ \/ check_error(err)]
    /\ UNCHANGED <<driven, ra, pools, reporters, objs>>

\* ra.c py_editor_dealloc, run when the last reference to an Editor goes away: the
\* pool is destroyed whatever its state.  ghost: pre.poolLive says whether the pool
\* was still there when apr_pool_destroy was called on it.
py_editor_dealloc(o) ==
    /\ IsEdit(o)
    /\ objs' = [objs EXCEPT ![o].live = FALSE]
    /\ pools' = apr_pool_destroy(pools, objs[o].pool)
    /\ last' = [op |-> "editor_dealloc", obj |-> o,
                pre |-> [poolLive |-> pools[objs[o].pool].live]]
    /\ UNCHANGED <<driven, ra, reporters, edits>>

\* --------------------------------------------------------- session operations
\* What the caller and libsvn see of the temporary pool of one call.
NoTmp == [created |-> FALSE, destroys |-> 0, live |-> FALSE, handed |-> FALSE]
Tmp(tp, handed) ==
    [created |-> TRUE, destroys |-> tp.destroys, live |-> tp.live, handed |-> handed]

\* The shape most operations share:
\*     temp_pool = Pool(parent); RUN_SVN_WITH_POOL(temp_pool, cmd);
\*     apr_pool_destroy(temp_pool); return <value>;
Scoped(parent, err) ==
    LET tp == RUN_SVN_WITH_POOL(Pool(parent), err)
    IN IF check_error(err) THEN DestroyTemp(tp) ELSE tp

SessionReturned(op, parsed, err, tp) ==
    [op |-> op, parsed |-> parsed, fwd |-> IF parsed THEN 1 ELSE 0,
     err |-> parsed /\ err, ok |-> parsed /\ check_error(err),
     tmp |-> IF parsed THEN Tmp(tp, FALSE) ELSE NoTmp]

\* A session that kept track of the Reporters and Editors it handed out and
\* refused a query while one of them is neither finished, closed nor aborted.
Query_RefusesInFlight(op, parsed, err) ==
    LET busy == \/ \E r \in DOMAIN reporters :
                      reporters[r].live /\ reporters[r].done = "no"
                \/ \E e \in DOMAIN edits :
                      objs[edits[e].obj].live /\ ~edits[e].closed /\ ~edits[e].aborted
        sent == parsed /\ ~busy
    IN
    /\ ra.live
    /\ last' = [SessionReturned(op, parsed, err, Scoped(ra.pool, err)) EXCEPT
                   !.fwd = IF sent THEN 1 ELSE 0,
                   !.err = sent /\ err,
                   !.ok = sent /\ check_error(err)]
    /\ UNCHANGED <<driven, ra, pools, reporters, objs, edits>>

\* ra.c py_progress_func, the svn_ra_progress_notify_func_t of the session, with
\* ra->progress_func as baton: nothing is called for Py_None; otherwise the
\* callable is called, its result is dropped and an exception it raised is left
\* set (pending).  ra_new stores progress_cb without Py_INCREF: fn is "held" while
\* the caller keeps a reference of its own and "dangling" otherwise, and calling a
\* dangling object is undefined: freed marks the outcomes, the callable having run
\* all the same or nothing of the caller's having run.
py_progress_func(fn, raises, freed) ==
    IF fn = "None" THEN [called |-> FALSE, pending |-> FALSE]
    ELSE IF fn = "held" \/ freed = "ran" THEN [called |-> TRUE, pending |-> raises]
    ELSE [called |-> FALSE, pending |-> FALSE]

\* What n progress reports of libsvn during one operation leave behind.
Progress(fn, parsed, n, raises, freed) ==
    LET p == py_progress_func(fn, raises, freed) IN
    [calls |-> IF parsed /\ p.called THEN n ELSE 0,
     pending |-> parsed /\ n > 0 /\ p.pending]

\* A session operation during which libsvn reports progress n times.
Progressing(op, parsed, err, n, raises, freed) ==
    /\ ra.live
    /\ last' = SessionReturned(op, parsed, err, Scoped(ra.pool, err))
                @@ [n |-> n, progress |-> Progress(ra.progress_func, parsed, n,
                                                   raises, freed)]
    /\ UNCHANGED <<driven, ra, pools, reporters, objs, edits>>

\* A session operation during which libsvn reports no progress.
Query(op, parsed, err) == Progressing(op, parsed, err, 0, FALSE, "ran")

\* ra.c ra_new.  fail names the call of libsvn that returns an error, if any:
\* svn_ra_create_callbacks or svn_ra_open2.  refs are the references the object
\* took on url and on the auth chain; on both failure paths the pool is destroyed
\* and the object deleted with these references still held.  The model has one
\* session: a new one is opened once the previous one is gone.
ra_new(parsed, alloc, url, progress_cb, fail) ==
    LET took == parsed /\ alloc
        made == took /\ fail = "none"
        pool == IF made THEN [Pool(0) EXCEPT !.owner = "session"]
                ELSE DestroyTemp(Pool(0))
    IN
    /\ ~ra.live
    /\ Len(pools) < MaxPools
    /\ pools' = IF took THEN Append(pools, pool) ELSE pools
    /\ ra' = IF made
             THEN [live |-> TRUE, url |-> url, pool |-> Len(pools) + 1,
                   progress_func |-> progress_cb, refs |-> [url |-> 1, auth |-> 1]]
             ELSE ra
    /\ last' = [op |-> "new", parsed |-> parsed, ok |-> made,
                refs |-> IF took THEN [url |-> 1, auth |-> 1]
                         ELSE [url |-> 0, auth |-> 0],
                pool |-> IF took THEN Len(pools) + 1 ELSE 0]
    /\ UNCHANGED <<driven, reporters, objs, edits>>

\* ra.c ra_dealloc: Py_DECREF(ra->url); apr_pool_destroy(ra->pool);
\* Py_DECREF(ra->auth).
ra_dealloc ==
    /\ ra.live
    /\ ra' = [ra EXCEPT !.live = FALSE,
                        !.refs = [url |-> @.url - 1, auth |-> @.auth - 1]]
    /\ pools' = apr_pool_destroy(pools, ra.pool)
    /\ last' = [op |-> "dealloc"]
    /\ UNCHANGED <<driven, reporters, objs, edits>>

\* ra.c ra_get_uuid
ra_get_uuid(err) == Query("get_uuid", TRUE, err)

\* ra.c ra_reparent: the url the object holds is not touched.
ra_reparent(parsed, url, err) ==
    /\ ra.live
    /\ last' = SessionReturned("reparent", parsed, err, Scoped(ra.pool, err))
                @@ [arg |-> url, held |-> ra.url]
    /\ UNCHANGED <<driven, ra, pools, reporters, objs, edits>>

\* ra.c ra_repr: "RemoteAccess(%s)" of the url the session object holds.
ra_repr == <<"RemoteAccess(", ra.url, ")">>

\* ra.c ra_get_latest_revnum
ra_get_latest_revnum(err) == Query("get_latest_revnum", TRUE, err)

\* ra.c ra_get_repos_root: root is read after the pool that holds it is destroyed.
ra_get_repos_root(err) == Query("get_repos_root", TRUE, err)

\* ra.c ra_replay
ra_replay(parsed, err) == Query("replay", parsed, err)

\* ra.c ra_rev_proplist
ra_rev_proplist(parsed, err) == Query("rev_proplist", parsed, err)

\* ra.c ra_change_rev_prop: rev is never set from the arguments.
ra_change_rev_prop(parsed, garbageRev, err) ==
    /\ ra.live
    /\ last' = SessionReturned("change_rev_prop", parsed, err, Scoped(ra.pool, err))
                @@ [arg |-> garbageRev]
    /\ UNCHANGED <<driven, ra, pools, reporters, objs, edits>>

\* ra.c ra_get_lock: the lock is wrapped after its pool is destroyed.
ra_get_lock(parsed, err) == Query("get_lock", parsed, err)

\* ra.c ra_check_path
ra_check_path(parsed, err) == Query("check_path", parsed, err)

\* ra.c has_capability
has_capability(parsed, err) == Query("has_capability", parsed, err)

\* ra.c ra_get_locks
ra_get_locks(parsed, err) == Query("get_locks", parsed, err)

\* ra.c ra_get_locations: the temporary pool has no parent.
ra_get_locations(parsed, err) ==
    /\ ra.live
    /\ last' = SessionReturned("get_locations", parsed, err, Scoped(0, err))
    /\ UNCHANGED <<driven, ra, pools, reporters, objs, edits>>

\* The dirent fields ra_get_dir copies for a dirent_fields mask: kind 0x1, size 0x2,
\* has_props 0x4, created_rev 0x8, time 0x10, last_author 0x20.
FieldBits ==
    <<"kind", "size", "has_props", "created_rev", "time", "last_author">>
Bit(mask, k) == (mask \div (2 ^ (k - 1))) % 2 = 1
\* A get_dir that copied every field whatever the mask.
Populated_All(mask) == {FieldBits[k] : k \in 1..6}
Populated(mask) == {FieldBits[k] : k \in {j \in 1..6 : Bit(mask, j)}}

\* ra.c ra_get_dir
ra_get_dir(parsed, mask, names, err) ==
    /\ ra.live
    /\ last' = SessionReturned("get_dir", parsed, err, Scoped(ra.pool, err))
                @@ [arg |-> mask,
                    ret |-> IF parsed /\ check_error(err)
                            THEN [n \in names |-> Populated(mask)]
                            ELSE <<>>]
    /\ UNCHANGED <<driven, ra, pools, reporters, objs, edits>>

\* ---------------------------------------------- operations that hand out objects
\* The pool of a call that returned with the pool still alive: it stays in `pools`,
\* owned by the object it was stored in, or by nobody.
Keep(tp, owner) == Append(pools, [tp EXCEPT !.owner = owner])

\* ra_do_update and ra_do_switch:
\*     temp_pool = Pool(ra->pool); RUN_SVN_WITH_POOL(temp_pool, svn_ra_do_...);
\*     ret = PyObject_New(...); if (ret == NULL) return NULL; ret->pool = temp_pool;
\* update_editor goes to libsvn as the baton of py_editor, a borrowed reference (no
\* Py_INCREF, and the Reporter holds none): kept says whether the caller holds a
\* reference of its own for as long as the report lasts.  ghost: calls are the
\* methods libsvn has called on the caller's editor.
HandsOutReporter(op, parsed, err, alloc, kept) ==
    LET tp == RUN_SVN_WITH_POOL(Pool(ra.pool), err)
        made == parsed /\ check_error(err) /\ alloc
    IN
    /\ ra.live
    /\ Len(pools) < MaxPools
    /\ Len(reporters) < MaxReporters
    /\ last' = [SessionReturned(op, parsed, err, tp) EXCEPT
                   !.ok = made, !.tmp.handed = made]
    /\ pools' = IF parsed /\ tp.live
                THEN Keep(tp, IF made THEN "reporter" ELSE "none")
                ELSE pools
    /\ reporters' = IF made
                    THEN Append(reporters,
                                [pool |-> Len(pools) + 1, live |-> TRUE, done |-> "no",
                                 failed |-> FALSE, report |-> <<>>, asked |-> <<>>,
                                 editor |-> IF kept THEN "held" ELSE "dangling",
                                 calls |-> <<>>])
                    ELSE reporters
    /\ UNCHANGED <<driven, ra, objs, edits>>

\* ra.c ra_do_update
ra_do_update(parsed, err, alloc, kept) ==
    HandsOutReporter("do_update", parsed, err, alloc, kept)

\* ra.c ra_do_switch
ra_do_switch(parsed, err, alloc, kept) ==
    HandsOutReporter("do_switch", parsed, err, alloc, kept)

\* ra.c get_commit_editor: the pool goes to new_editor_object, which returns NULL
\* when PyObject_New fails.  commit_callback is handed to libsvn as a borrowed
\* reference (no Py_INCREF): kept says whether the caller holds a reference of its
\* own for as long as the edit lasts.
get_commit_editor(parsed, err, alloc, kept) ==
    LET tp == RUN_SVN_WITH_POOL(Pool(ra.pool), err)
        made == parsed /\ check_error(err) /\ alloc
    IN
    /\ ra.live
    /\ Len(pools) < MaxPools
    /\ Len(objs) < MaxObjs
    /\ last' = [SessionReturned("get_commit_editor", parsed, err, tp) EXCEPT
                   !.ok = made, !.tmp.handed = made]
    /\ pools' = IF parsed /\ tp.live
                THEN Keep(tp, IF made THEN "editor" ELSE "none")
                ELSE pools
    /\ objs' = IF made
               THEN Append(objs, new_editor_object("Editor", Len(edits) + 1, 0,
                                                   Len(pools) + 1))
               ELSE objs
    /\ edits' = IF made
                THEN Append(edits, [obj |-> Len(objs) + 1, aborted |-> FALSE,
                                    closed |-> FALSE, failed |-> FALSE,
                                    callback |-> IF kept THEN "held"
                                                 ELSE "dangling"])
                ELSE edits
    /\ UNCHANGED <<driven, ra, reporters>>

\* ------------------------------------------------------------------ Reporter
LiveReporter(r) == r \in DOMAIN reporters /\ reporters[r].live

\* A binding that kept the finished/aborted state of the report and refused calls
\* made after it.
Reported_RefusesDone(op, r, parsed, err, entry) ==
    LET sent == parsed /\ reporters[r].done = "no" IN
    [op |-> op, rep |-> r, parsed |-> parsed, fwd |-> IF sent THEN 1 ELSE 0,
     err |-> sent /\ err, ok |-> sent /\ check_error(err),
     entry |-> IF parsed THEN entry ELSE <<>>,
     pre |-> [done |-> reporters[r].done, failed |-> reporters[r].failed,
              sent |-> Len(reporters[r].report)]]

\* What a Reporter method returns; entry is what reached the svn_ra_reporter2_t.
Reported(op, r, parsed, err, entry) ==
    [op |-> op, rep |-> r, parsed |-> parsed, fwd |-> IF parsed THEN 1 ELSE 0,
     err |-> parsed /\ err, ok |-> parsed /\ check_error(err),
     entry |-> IF parsed THEN entry ELSE <<>>,
     pre |-> [done |-> reporters[r].done, failed |-> reporters[r].failed,
              sent |-> Len(reporters[r].report)]]

\* The forwarded entry is logged; ghost: the report notes a failure.
Logged(r, parsed, err, entry, call) ==
    [reporters EXCEPT
        ![r].report = IF parsed THEN Append(@, entry) ELSE @,
        ![r].asked = IF parsed THEN Append(@, call) ELSE @,
        ![r].failed = @ \/ ~(parsed /\ check_error(err))]

\* ra.c c_lock_token: None becomes NULL, anything else its string.
c_lock_token(py_lock_token) == IF py_lock_token = "None" THEN "NULL" ELSE py_lock_token

\* ra.c reporter_set_path: the format "slb|z" stores a char * (or NULL, for None)
\* into lock_token, a PyObject * that starts as Py_None.  With the token omitted
\* c_lock_token sees Py_None; with one given it is handed a char * as if it were an
\* object, and what PyString_AsString makes of that (gToken) is undefined.
reporter_set_path(r, parsed, path, revision, start_empty, lock_token, gToken, err) ==
    LET token == IF lock_token = "omitted" THEN c_lock_token("None") ELSE gToken
        entry == <<"set_path", path, revision, start_empty, token>>
        call == <<"set_path", path, revision, start_empty, lock_token>>
    IN
    /\ LiveReporter(r)
    /\ Len(reporters[r].report) < MaxReport
    /\ last' = Reported("set_path", r, parsed, err, entry)
    /\ reporters' = Logged(r, parsed, err, entry, call)
    /\ UNCHANGED <<driven, ra, pools, objs, edits>>

\* ra.c reporter_delete_path
reporter_delete_path(r, parsed, path, err) ==
    LET entry == <<"delete_path", path>>
    IN
    /\ LiveReporter(r)
    /\ Len(reporters[r].report) < MaxReport
    /\ last' = Reported("delete_path", r, parsed, err, entry)
    /\ reporters' = Logged(r, parsed, err, entry, entry)
    /\ UNCHANGED <<driven, ra, pools, objs, edits>>

\* ra.c reporter_link_path: the format "sslb|O" has five units and four targets;
\* revision is never written, and start_empty and lock_token receive the
\* revision and the flag.  What reaches link_path in their place is whatever those
\* variables then hold (gRev, gEmpty, gToken).
reporter_link_path(r, parsed, path, url, revision, start_empty, lock_token, gRev, gEmpty, gToken, err) ==
    LET entry == <<"link_path", path, url, gRev, gEmpty, gToken>>
        call == <<"link_path", path, url, revision, start_empty, lock_token>>
    IN
    /\ LiveReporter(r)
    /\ Len(reporters[r].report) < MaxReport
    /\ last' = Reported("link_path", r, parsed, err, entry)
    /\ reporters' = Logged(r, parsed, err, entry, call)
    /\ UNCHANGED <<driven, ra, pools, objs, edits>>

\* ra.c py_editor, the svn_delta_editor_t given to svn_ra_do_update/do_switch with
\* the caller's editor as edit baton: the methods an edit without changes calls on
\* it (py_cb_editor_set_target_revision, py_cb_editor_open_root,
\* py_cb_editor_close_directory on what open_root returned, py_cb_editor_close_edit).
EditorDrive == <<"set_target_revision", "open_root", "close">>

\* The calls the drive makes on the caller's editor.  With no reference of the
\* caller's left the edit baton is dangling and PyObject_CallMethod on it is
\* undefined: freed marks the outcomes, the methods having run all the same or
\* nothing of the caller's having run.
Drive(editor, freed) ==
    IF editor = "held" \/ freed = "ran" THEN EditorDrive ELSE <<>>

\* reporter_finish and reporter_abort: METH_NOARGS, the call goes to the report
\* baton whatever was called before.  finish_report is where libsvn drives the
\* editor given to do_update/do_switch; abort_report drives nothing.  ghost: done
\* names the first terminator that succeeded.
Terminates(op, r, err, state, freed) ==
    LET first == reporters[r].done = "no" /\ check_error(err) IN
    /\ LiveReporter(r)
    /\ last' = Reported(op, r, TRUE, err, <<op>>)
    /\ reporters' = [reporters EXCEPT
                        ![r].done = IF first THEN state ELSE @,
                        ![r].failed = @ \/ ~check_error(err),
                        ![r].calls = IF first /\ state = "finished"
                                     THEN Drive(reporters[r].editor, freed)
                                     ELSE @]
    /\ UNCHANGED <<driven, ra, pools, objs, edits>>

\* ra.c reporter_finish
reporter_finish(r, err, freed) == Terminates("finish", r, err, "finished", freed)

\* ra.c reporter_abort
reporter_abort(r, err) == Terminates("abort", r, err, "aborted", "ran")

\* ra.c reporter_dealloc: the pool is destroyed whatever its state.  ghost:
\* pre.poolLive as in py_editor_dealloc.
reporter_dealloc(r) ==
    /\ LiveReporter(r)
    /\ reporters' = [reporters EXCEPT ![r].live = FALSE]
    /\ pools' = apr_pool_destroy(pools, reporters[r].pool)
    /\ last' = [op |-> "reporter_dealloc", rep |-> r,
                pre |-> [poolLive |-> pools[reporters[r].pool].live]]
    /\ UNCHANGED <<driven, ra, objs, edits>>

\* --------------------------------------------------------------------- locks
\* A lock is the set holding the svn_lock_t: empty for a NULL pointer and, on the
\* Python side, for None.
\* ra.c pyify_lock: every svn_lock_t, NULL or not, becomes Py_None.
pyify_lock(lock) == {}

\* ra.c py_lock_func: the callback is called with (path, do_lock, pyify_lock(lock),
\* the exception made of ra_err or None); when it raises, py_svn_error() is returned.
py_lock_func(path, do_lock, lock, ra_err, raises) ==
    [call |-> [path |-> path, do_lock |-> do_lock, lock |-> pyify_lock(lock),
               err |-> IF ra_err THEN "SubversionException" ELSE "None",
               svn_lock |-> lock, raised |-> raises],
     error |-> IF raises THEN py_svn_error ELSE FALSE]

\* All orders in which a hash holding the keys S can be walked.
Orders(S) ==
    {q \in [1..Cardinality(S) -> S] : \A i, j \in DOMAIN q : i # j => q[i] # q[j]}

RECURSIVE LockDrive(_, _, _, _, _)
\* svn_ra_lock / svn_ra_unlock: each path of the hash is tried in turn and the
\* outcome goes to lock_func; a non-NULL return of lock_func ends the batch.
LockDrive(order, i, do_lock, denied, raises) ==
    IF i > Len(order) THEN <<>>
    ELSE LET path == order[i]
             lock == IF do_lock /\ path \notin denied
                     THEN {[path |-> path, token |-> "tok", owner |-> "me"]}
                     ELSE {}
             r == py_lock_func(path, do_lock, lock, path \in denied, i \in raises)
         IN IF r.error THEN <<r.call>>
            ELSE <<r.call>> \o LockDrive(order, i + 1, do_lock, denied, raises)

\* ra.c ra_lock.  err is a failure of the request as a whole, before any path is
\* tried.  path_revs maps each path to the kind of its revision value.  The
\* value stored in the hash is PyString_AsString(v): NULL for an int, which makes
\* apr_hash_set drop the key, and the characters of v for a str.  The function ends
\* in "return NULL" on the path without error too.
ra_lock(parsed, path_revs, order, denied, raises, err) ==
    LET hash == {p \in DOMAIN path_revs : path_revs[p] = "str"}
    IN
    /\ ra.live
    /\ order \in Orders(hash)
    /\ denied \subseteq hash
    /\ raises \subseteq DOMAIN order
    /\ last' = IF parsed
               THEN [SessionReturned("lock", TRUE, err, Scoped(ra.pool, err)) EXCEPT
                        !.ok = FALSE]
                    @@ [given |-> DOMAIN path_revs, hash |-> hash,
                        cbs |-> IF err THEN <<>>
                                ELSE LockDrive(order, 1, TRUE, denied, raises)]
               ELSE SessionReturned("lock", FALSE, FALSE, NoTmp)
                    @@ [given |-> DOMAIN path_revs, hash |-> {}, cbs |-> <<>>]
    /\ UNCHANGED <<driven, ra, pools, reporters, objs, edits>>

\* ra.c ra_unlock.  idx is not initialised, so PyDict_Next starts anywhere in the
\* dict: the hash holds some of the paths of path_tokens.
ra_unlock(parsed, path_tokens, hash, order, denied, raises, err) ==
    /\ ra.live
    /\ hash \subseteq path_tokens
    /\ order \in Orders(hash)
    /\ denied \subseteq hash
    /\ raises \subseteq DOMAIN order
    /\ last' = IF parsed
               THEN SessionReturned("unlock", TRUE, err, Scoped(ra.pool, err))
                    @@ [given |-> path_tokens, hash |-> hash,
                        cbs |-> IF err THEN <<>>
                                ELSE LockDrive(order, 1, FALSE, denied, raises)]
               ELSE SessionReturned("unlock", FALSE, FALSE, NoTmp)
                    @@ [given |-> path_tokens, hash |-> {}, cbs |-> <<>>]
    /\ UNCHANGED <<driven, ra, pools, reporters, objs, edits>>

\* ------------------------------------------------------------------- get_log
\* The revisions svn_ra_get_log visits: from start to end, in that direction.
Walk(start, end) ==
    IF start <= end
    THEN [i \in 1..(end - start + 1) |-> start + i - 1]
    ELSE [i \in 1..(start - end + 1) |-> start - i + 1]

RECURSIVE Select(_, _)
Select(q, S) ==
    IF q = <<>> THEN <<>>
    ELSE (IF Head(q) \in S THEN <<Head(q)>> ELSE <<>>) \o Select(Tail(q), S)

Take(q, k) == IF k > 0 /\ Len(q) > k THEN SubSeq(q, 1, k) ELSE q

\* The revisions the server reports for (start, end, limit) when those in qual
\* touch the paths asked for; limit 0 means no limit.
Qualifying(start, end, limit, qual) == Take(Select(Walk(start, end), qual), limit)

\* The names of the revision properties: SVN_PROP_REVISION_LOG,
\* SVN_PROP_REVISION_AUTHOR and SVN_PROP_REVISION_DATE.
RevisionPropNames == {"svn:log", "svn:author", "svn:date"}

\* What the format unit "i" of Py_BuildValue makes of a long: its low 32 bits, as
\* a signed int.  Every integer of the model is within -2^31..2^31-1, where that
\* is the number itself.
AsInt(n) == n

\* A wrapper that always put the author into the property map, "NULL" when there
\* is none.
py_svn_log_wrapper_AlwaysAuthor(changed_paths, revision, author, date, message, raises) ==
    LET value == [name \in RevisionPropNames |->
                     IF name = "svn:log" THEN message
                     ELSE IF name = "svn:author" THEN author ELSE date]
        paths == IF changed_paths.null THEN {} ELSE DOMAIN changed_paths.items
    IN
    [call |-> [changed_paths |->
                  [none |-> changed_paths.null,
                   items |-> [key \in paths |->
                                 LET val == changed_paths.items[key] IN
                                 <<val.action,
                                   IF val.copyfrom_path = "NULL" THEN "None"
                                   ELSE val.copyfrom_path,
                                   AsInt(val.copyfrom_rev)>>]],
               rev |-> AsInt(revision),
               revprops |-> [name \in {n \in RevisionPropNames :
                                          n = "svn:author" \/ value[n] # "NULL"}
                                |-> value[name]],
               raised |-> raises],
     error |-> FALSE]

\* util.c py_svn_log_wrapper: changed_paths becomes None when it is NULL and else
\* a dict of (action, copyfrom_path, copyfrom_rev) per path, format "(czi)"; the
\* property dict gets the message, the author and the date that are not NULL; the
\* callback is called with (changed_paths, revision, revprops), format "OiO".
\* What it returned is not looked at and NULL, "no error", goes back to libsvn.
py_svn_log_wrapper(changed_paths, revision, author, date, message, raises) ==
    LET value == [name \in RevisionPropNames |->
                     IF name = "svn:log" THEN message
                     ELSE IF name = "svn:author" THEN author ELSE date]
        paths == IF changed_paths.null THEN {} ELSE DOMAIN changed_paths.items
    IN
    [call |-> [changed_paths |->
                  [none |-> changed_paths.null,
                   items |-> [key \in paths |->
                                 LET val == changed_paths.items[key] IN
                                 <<val.action,
                                   IF val.copyfrom_path = "NULL" THEN "None"
                                   ELSE val.copyfrom_path,
                                   AsInt(val.copyfrom_rev)>>]],
               rev |-> AsInt(revision),
               revprops |-> [name \in {n \in RevisionPropNames : value[n] # "NULL"}
                                |-> value[name]],
               raised |-> raises],
     error |-> FALSE]

\* A changed-paths hash: NULL, or svn_log_changed_path_t values by path.
NoChanges == [null |-> TRUE, items |-> [key \in {} |-> 0]]
Changes(items) == [null |-> FALSE, items |-> items]
Change(action, copyfrom_path, copyfrom_rev) ==
    [action |-> action, copyfrom_path |-> copyfrom_path, copyfrom_rev |-> copyfrom_rev]

\* The changed-paths hashes libsvn hands to the receiver.
LogChanges ==
    {NoChanges,
     Changes([key \in {"a"} |-> Change("A", "NULL", -1)]),
     Changes([key \in {"a", "b"} |->
                 IF key = "a" THEN Change("M", "NULL", -1) ELSE Change("A", "a", 1)])}

\* libsvn calls the receiver with one log entry.
Receives(changed_paths, revision, author, date, message, raises) ==
    /\ last' = [op |-> "log_entry",
                given |-> [changed_paths |-> changed_paths, revision |-> revision,
                           author |-> author, date |-> date, message |-> message],
                call |-> py_svn_log_wrapper(changed_paths, revision, author, date,
                                            message, raises).call]
    /\ UNCHANGED <<driven, ra, pools, reporters, objs, edits>>

RECURSIVE LogDrive(_, _, _)
\* svn_ra_get_log: the receiver gets the entries in turn; a non-NULL return of the
\* receiver ends the walk.
LogDrive(revs, i, raises) ==
    IF i > Len(revs) THEN <<>>
    ELSE LET r == py_svn_log_wrapper(NoChanges, revs[i], "author", "date", "NULL",
                                     i \in raises)
         IN IF r.error THEN <<r.call>>
            ELSE <<r.call>> \o LogDrive(revs, i + 1, raises)

\* ra.c ra_get_log.  The test of PyArg_ParseTupleAndKeywords is not negated: with
\* arguments that parse, the function returns NULL at once.  With arguments that
\* do not parse it goes on with what was parsed so far and with uninitialised
\* values for the rest (start, end, limit here), in a pool without parent.  err is
\* a failure of the request as a whole, before any entry is delivered.
ra_get_log(valid, start, end, limit, qual, raises, err) ==
    LET revs == Qualifying(start, end, limit, qual)
        asked == [valid |-> valid, start |-> start, end |-> end, limit |-> limit,
                  qual |-> qual]
    IN
    /\ ra.live
    /\ raises \subseteq DOMAIN revs
    /\ last' = IF valid
               THEN SessionReturned("get_log", FALSE, FALSE, NoTmp)
                    @@ [asked |-> asked, delivered |-> <<>>]
               ELSE SessionReturned("get_log", TRUE, err, Scoped(0, err))
                    @@ [asked |-> asked, delivered |-> IF err THEN <<>> ELSE LogDrive(revs, 1, raises)]
    /\ UNCHANGED <<driven, ra, pools, reporters, objs, edits>>

\* ----------------------------------------------------------------- file revs
\* The revision properties libsvn hands over with revision rev, an apr_hash_t:
\* never NULL here, one property whose value tells the revisions apart.
RevProps(rev) == [null |-> FALSE, items |-> [name \in {"svn:log"} |-> rev]]

\* util.c prop_hash_to_dict: None for a NULL hash, else a dict with every key of
\* the hash and its value.
prop_hash_to_dict(props) ==
    [none |-> props.null,
     items |-> [name \in (IF props.null THEN {} ELSE DOMAIN props.items) |->
                   props.items[name]]]

\* ra.c py_file_rev_handler: the handler is called with (path, rev, props).
\* delta_handler and delta_baton are not assigned and prop_diffs is not passed on;
\* when the call raises, py_svn_error() is what libsvn gets.
py_file_rev_handler(path, rev, rev_props, raises) ==
    [call |-> [args |-> <<path, rev, prop_hash_to_dict(rev_props)>>,
               delta_handler |-> "unset", raised |-> raises],
     error |-> IF raises THEN py_svn_error ELSE FALSE]

RECURSIVE FileRevDrive(_, _, _, _)
\* svn_ra_get_file_revs: the handler gets the revisions in turn, oldest first; a
\* non-NULL return of the handler ends the walk.
FileRevDrive(path, revs, i, raises) ==
    IF i > Len(revs) THEN <<>>
    ELSE LET r == py_file_rev_handler(path, revs[i], RevProps(revs[i]), i \in raises)
         IN IF r.error THEN <<r.call>>
            ELSE <<r.call>> \o FileRevDrive(path, revs, i + 1, raises)

\* ra.c ra_get_file_revs.  qual are the revisions in which the file changed; err
\* is a failure of the request as a whole, before any revision is delivered.
ra_get_file_revs(parsed, path, start, end, qual, raises, err) ==
    LET revs == Select(Walk(start, end), qual) IN
    /\ ra.live
    /\ start <= end
    /\ raises \subseteq DOMAIN revs
    /\ last' = SessionReturned("get_file_revs", parsed, err, Scoped(ra.pool, err))
                @@ [asked |-> [path |-> path, start |-> start, end |-> end, revs |-> revs],
                    delivered |-> IF parsed /\ ~err
                                  THEN FileRevDrive(path, revs, 1, raises)
                                  ELSE <<>>]
    /\ UNCHANGED <<driven, ra, pools, reporters, objs, edits>>

\* ------------------------------------------------------------ specifications
\* ------------------------------------------------- edits driven by libsvn
\* py_editor is the svn_delta_editor_t that do_update, do_switch and replay hand
\* to libsvn together with the caller's editor object.  libsvn is the driver: it
\* follows the editor protocol (a file is closed once, a stream gets its windows
\* and then one NULL window, nothing is called after an error was returned).  The
\* caller's objects are the consumer.

\* svn_delta.h enum svn_delta_action.
svn_txdelta_source == 0
svn_txdelta_target == 1
svn_txdelta_new == 2

\* The base text of the driven file.
Base == <<"a", "b", "c">>

\* svn_txdelta_window_t values the driver may send, each with the text it stands
\* for when applied to Base (ghost).
Windows ==
    << [window |-> [sview_offset |-> 0, sview_len |-> 3, tview_len |-> 3,
                    num_ops |-> 1, src_ops |-> 1,
                    ops |-> <<[action_code |-> svn_txdelta_source,
                               offset |-> 0, length |-> 3]>>,
                    new_data |-> <<>>],
        tview |-> <<"a", "b", "c">>],
       [window |-> [sview_offset |-> 1, sview_len |-> 2, tview_len |-> 4,
                    num_ops |-> 3, src_ops |-> 1,
                    ops |-> <<[action_code |-> svn_txdelta_new,
                               offset |-> 0, length |-> 1],
                              [action_code |-> svn_txdelta_source,
                               offset |-> 1, length |-> 1],
                              [action_code |-> svn_txdelta_target,
                               offset |-> 0, length |-> 2]>>,
                    new_data |-> <<"z">>],
        tview |-> <<"z", "c", "z", "c">>] >>

\* ra.c py_txdelta_window_handler, the conversion: the arguments of the call
\* fn(sview_offset, sview_len, tview_len, src_ops, ops, new_data), ops being the
\* list of (action_code, offset, length) of the first num_ops instructions.
WindowArgs(window) ==
    <<window.sview_offset, window.sview_len, window.tview_len, window.src_ops,
      [i \in 1..window.num_ops |->
          <<window.ops[i].action_code, window.ops[i].offset, window.ops[i].length>>],
      window.new_data>>

\* ra.c py_cb_editor_add_file: the consumer's add_file is called on the parent; the
\* object it returns comes as a new reference and Py_INCREF adds a second one.
\* When the call raises, py_svn_error() is what the driver gets.
py_cb_editor_add_file(raises) ==
    /\ Len(driven.files) < MaxFiles
    /\ driven' = IF raises THEN driven
                 ELSE [driven EXCEPT
                          !.files = Append(@, [refs |-> 2, released |-> 0,
                                               open |-> TRUE, closes |-> <<>>])]
    /\ last' = [op |-> "cb_add_file", raised |-> raises,
                error |-> IF raises THEN py_svn_error ELSE FALSE]
    /\ UNCHANGED <<ra, pools, reporters, objs, edits>>

\* ra.c py_cb_editor_apply_textdelta: the consumer's apply_textdelta gives the
\* window handler fn ("None" when the consumer does not want the deltas), again a
\* new reference plus one Py_INCREF, and fn becomes the baton of
\* py_txdelta_window_handler.
py_cb_editor_apply_textdelta(f, raises, fn) ==
    /\ f \in DOMAIN driven.files
    /\ driven.files[f].open
    /\ Len(driven.streams) < MaxStreams
    /\ \A i \in DOMAIN driven.streams :
          driven.streams[i].file = f => driven.streams[i].ended
    /\ driven' = IF raises THEN driven
                 ELSE [driven EXCEPT
                          !.streams = Append(@, [file |-> f, fn |-> fn, refs |-> 2,
                                                 released |-> 0, produced |-> <<>>,
                                                 received |-> <<>>, terminators |-> 0,
                                                 ended |-> FALSE, stopped |-> FALSE])]
    /\ last' = [op |-> "cb_apply_textdelta", file |-> f, raised |-> raises,
                error |-> IF raises THEN py_svn_error ELSE FALSE]
    /\ UNCHANGED <<ra, pools, reporters, objs, edits>>

\* ra.c py_txdelta_window_handler.  window is 0 for the NULL window that ends the
\* stream, else an index into Windows.  The NULL window releases one reference
\* to fn and is not passed on; a window is passed on unless fn is None.
py_txdelta_window_handler(st, window, raises) ==
    LET stream == driven.streams[st]
        called == window # 0 /\ stream.fn # "None"
        error == IF called /\ raises THEN py_svn_error ELSE FALSE
    IN
    /\ st \in DOMAIN driven.streams
    /\ ~stream.ended
    /\ ~stream.stopped
    /\ window # 0 => Len(stream.produced) < MaxWindows
    /\ driven' =
          [driven EXCEPT
              ![("streams")][st] =
                  IF window = 0
                  THEN [stream EXCEPT !.refs = @ - 1, !.released = @ + 1,
                                      !.ended = TRUE]
                  ELSE [stream EXCEPT
                           !.produced = Append(@, window),
                           !.received =
                               IF called
                               THEN Append(@, [args |-> WindowArgs(Windows[window].window),
                                               raised |-> raises])
                               ELSE @,
                           !.stopped = error]]
    /\ last' = [op |-> "window_handler", stream |-> st, window |-> window,
                raised |-> called /\ raises, error |-> error]
    /\ UNCHANGED <<ra, pools, reporters, objs, edits>>

\* ra.c py_cb_editor_close_file: the consumer's close is called without arguments
\* when text_checksum is not NULL and with the NULL checksum (None) when it is
\* NULL; then one reference to the file object is released.
py_cb_editor_close_file(f, text_checksum, raises) ==
    LET args == IF text_checksum # "NULL" THEN <<>> ELSE <<"None">> IN
    /\ f \in DOMAIN driven.files
    /\ driven.files[f].open
    /\ \A i \in DOMAIN driven.streams :
          driven.streams[i].file = f => driven.streams[i].ended
    /\ driven' = [driven EXCEPT
                     ![("files")][f] =
                         [@ EXCEPT !.closes = Append(@, args),
                                   !.open = FALSE,
                                   !.refs = IF raises THEN @ ELSE @ - 1,
                                   !.released = IF raises THEN @ ELSE @ + 1]]
    /\ last' = [op |-> "cb_close_file", file |-> f, text_checksum |-> text_checksum,
                args |-> args, raised |-> raises,
                error |-> IF raises THEN py_svn_error ELSE FALSE]
    /\ UNCHANGED <<ra, pools, reporters, objs, edits>>

\* ra.c py_cb_editor_abort_edit: the consumer's abort() is called; the batons of
\* the handles the edit has produced are left as they are.
py_cb_editor_abort_edit(raises) ==
    /\ driven.files # <<>>
    /\ last' = [op |-> "cb_abort_edit", raised |-> raises,
                error |-> IF raises THEN py_svn_error ELSE FALSE]
    /\ UNCHANGED <<driven, ra, pools, reporters, objs, edits>>

Bool == BOOLEAN

\* What ra_new can be given as progress_cb: None, a callable the caller keeps a
\* reference to, or one it does not.
Callbacks == {"None", "held", "dangling"}

\* What a call can come to, as <<parsed, err>>: its arguments do not parse, the
\* underlying call returns no error, or it returns one.
Outcomes == {<<FALSE, FALSE>>, <<TRUE, FALSE>>, <<TRUE, TRUE>>}

\* The svn_commit_info_t of a commit that made revision rev.
CommitInfo(rev) == [revision |-> rev, date |-> "date", author |-> "author"]

\* py_editor_methods, py_dir_editor_methods and py_file_editor_methods: what the
\* caller can invoke on the objects of an edit.
EditorMethods ==
    \/ \E o \in DOMAIN objs, c \in Outcomes :
          py_editor_set_target_revision(o, c[1], c[2])
    \/ \E o \in DOMAIN objs, c \in Outcomes : py_editor_open_root(o, c[1], c[2])
    \/ \E o \in DOMAIN objs, err \in Bool :
          py_editor_close(o, err, CommitInfo(MaxRev), FALSE, "ran")
    \/ \E o \in DOMAIN objs, err \in Bool : py_editor_abort(o, err)
    \/ \E o \in DOMAIN objs, c \in Outcomes :
          py_dir_editor_delete_entry(o, c[1], c[2])
    \/ \E o \in DOMAIN objs, c \in Outcomes :
          py_dir_editor_add_directory(o, c[1], c[2])
    \/ \E o \in DOMAIN objs, c \in Outcomes :
          py_dir_editor_open_directory(o, c[1], c[2])
    \/ \E o \in DOMAIN objs, c \in Outcomes, g \in {"v", "garbage"} :
          py_dir_editor_change_prop(o, c[1], c[2], "v", g)
    \/ \E o \in DOMAIN objs, err \in Bool : py_dir_editor_close(o, err)
    \/ \E o \in DOMAIN objs, c \in Outcomes :
          py_dir_editor_absent_directory(o, c[1], c[2])
    \/ \E o \in DOMAIN objs, c \in Outcomes : py_dir_editor_add_file(o, c[1], c[2])
    \/ \E o \in DOMAIN objs, c \in Outcomes : py_dir_editor_open_file(o, c[1], c[2])
    \/ \E o \in DOMAIN objs, c \in Outcomes :
          py_dir_editor_absent_file(o, c[1], c[2])
    \/ \E o \in DOMAIN objs, c \in Outcomes :
          py_file_editor_apply_textdelta(o, c[1], c[2])
    \/ \E o \in DOMAIN objs, c \in Outcomes :
          py_file_editor_change_prop(o, c[1], c[2], "v")
    \/ \E o \in DOMAIN objs, c \in Outcomes : py_file_editor_close(o, c[1], c[2])

\* reporter_methods: what the caller can invoke on a Reporter.
ReporterMethods ==
    \/ \E r \in DOMAIN reporters, c \in Outcomes, rev \in {1, MaxRev},
          t \in {"omitted", "tok"} :
          reporter_set_path(r, c[1], "a", rev, FALSE, t, "garbage", c[2])
    \/ \E r \in DOMAIN reporters, c \in Outcomes :
          reporter_delete_path(r, c[1], "a", c[2])
    \/ \E r \in DOMAIN reporters, c \in Outcomes, gToken \in {"NULL", "garbage"} :
          reporter_link_path(r, c[1], "b", "v", 1, FALSE, "omitted",
                             MaxRev, FALSE, gToken, c[2])
    \/ \E r \in DOMAIN reporters, err \in Bool : reporter_finish(r, err, "ran")
    \/ \E r \in DOMAIN reporters, err \in Bool : reporter_abort(r, err)

\* One session whose caller drives either one commit edit or one report.
NextCaller ==
    \/ \E c \in Outcomes :
          objs = <<>> /\ reporters = <<>> /\ get_commit_editor(c[1], c[2], TRUE, TRUE)
    \/ EditorMethods
    \/ \E c \in Outcomes :
          objs = <<>> /\ reporters = <<>> /\ ra_do_update(c[1], c[2], TRUE, TRUE)
    \/ \E c \in Outcomes :
          objs = <<>> /\ reporters = <<>> /\ ra_do_switch(c[1], c[2], TRUE, TRUE)
    \/ ReporterMethods

SpecCaller == Init /\ [][NextCaller]_vars

\* The operations of one session, each with its temporary pool, and the
\* destruction of the Reporters and Editors they returned.
NextSession ==
    \/ \E err \in Bool : ra_get_uuid(err)
    \/ \E parsed, err \in Bool, url \in Urls : ra_reparent(parsed, url, err)
    \/ \E err \in Bool : ra_get_latest_revnum(err)
    \/ \E valid, err \in Bool :
          ra_get_log(valid, 1, MaxRev, 0, Revs, {}, err)
    \/ \E err \in Bool : ra_get_repos_root(err)
    \/ \E parsed, err \in Bool : ra_replay(parsed, err)
    \/ \E parsed, err \in Bool : ra_rev_proplist(parsed, err)
    \/ \E parsed, err \in Bool, g \in Revs : ra_change_rev_prop(parsed, g, err)
    \/ \E parsed, err \in Bool, mask \in {0, 1, 63}, names \in SUBSET {"x"} :
          ra_get_dir(parsed, mask, names, err)
    \/ \E parsed, err \in Bool : ra_get_lock(parsed, err)
    \/ \E parsed, err \in Bool : ra_check_path(parsed, err)
    \/ \E parsed, err \in Bool : has_capability(parsed, err)
    \/ \E parsed, err \in Bool, k \in {"int", "str"} :
          ra_lock(parsed, [p \in {"a"} |-> k], IF k = "str" THEN <<"a">> ELSE <<>>,
                  {}, {}, err)
    \/ \E parsed, err \in Bool, h \in SUBSET {"a"} :
          ra_unlock(parsed, {"a"}, h, IF h = {} THEN <<>> ELSE <<"a">>, {}, {}, err)
    \/ \E parsed, err \in Bool : ra_get_locks(parsed, err)
    \/ \E parsed, err \in Bool : ra_get_locations(parsed, err)
    \/ \E parsed, err \in Bool : ra_get_file_revs(parsed, "a", 1, MaxRev, Revs, {}, err)
    \/ \E parsed, err, alloc \in Bool : ra_do_update(parsed, err, alloc, TRUE)
    \/ \E parsed, err, alloc \in Bool : ra_do_switch(parsed, err, alloc, TRUE)
    \/ \E parsed, err, alloc \in Bool : get_commit_editor(parsed, err, alloc, TRUE)
    \/ \E r \in DOMAIN reporters : reporter_dealloc(r)
    \/ \E o \in DOMAIN objs : py_editor_dealloc(o)

SpecSession == Init /\ [][NextSession]_vars

\* Bulk lock and unlock with every batch, walk order and per-path outcome.
NextLock ==
    \/ \E parsed, err \in Bool, S \in SUBSET Paths :
          \E path_revs \in [S -> {"int", "str"}], denied \in SUBSET S :
             \E order \in Orders({p \in S : path_revs[p] = "str"}) :
                \E raises \in SUBSET DOMAIN order :
                   ra_lock(parsed, path_revs, order, denied, raises, err)
    \/ \E parsed, err \in Bool, S \in SUBSET Paths :
          \E denied, hash \in SUBSET S :
             \E order \in Orders(hash) :
                \E raises \in SUBSET DOMAIN order :
                   ra_unlock(parsed, S, hash, order, denied, raises, err)

SpecLock == Init /\ [][NextLock]_vars

\* The revisions that touch the paths asked for: all of them, or the odd ones.
Touched == {Revs, {r \in Revs : r % 2 = 1}}

\* get_log over every range, limit and callback behaviour.
NextLog ==
    \E valid, err \in Bool, start, end \in Revs, limit \in 0..MaxLimit,
       qual \in Touched :
          \E raises \in SUBSET DOMAIN Qualifying(start, end, limit, qual) :
             ra_get_log(valid, start, end, limit, qual, raises, err)

SpecLog == Init /\ [][NextLog]_vars

\* -------------------------------------------------------------------- claims
\* get_dir alone, over every dirent_fields value up to MaxMask and every set of
\* entries the directory may hold.
EntryNames == {"x", "y"}
NextDir ==
    \E parsed, err \in Bool, mask \in 0..MaxMask, names \in SUBSET EntryNames :
        ra_get_dir(parsed, mask, names, err)

SpecDir == Init /\ [][NextDir]_vars

\* One commit edit, whose callback the caller may or may not keep referenced.
NextCommit ==
    \/ \E c \in Outcomes, kept \in Bool :
          objs = <<>> /\ get_commit_editor(c[1], c[2], TRUE, kept)
    \/ \E o \in DOMAIN objs, err, raises \in Bool, rev \in Revs,
          freed \in {"ran", "nothing"} :
          py_editor_close(o, err, CommitInfo(rev), raises, freed)
    \/ \E o \in DOMAIN objs, err \in Bool : py_editor_abort(o, err)
    \/ \E o \in DOMAIN objs, c \in Outcomes : py_editor_open_root(o, c[1], c[2])
    \/ \E o \in DOMAIN objs, c \in Outcomes : py_dir_editor_add_file(o, c[1], c[2])
    \/ \E o \in DOMAIN objs, err \in Bool : py_dir_editor_close(o, err)
    \/ \E o \in DOMAIN objs, c \in Outcomes : py_file_editor_close(o, c[1], c[2])

SpecCommit == Init /\ [][NextCommit]_vars

\* One update or switch: the report, and the edit libsvn drives when it is finished.
NextUpdate ==
    \/ \E c \in Outcomes, kept \in Bool :
          reporters = <<>> /\ ra_do_update(c[1], c[2], TRUE, kept)
    \/ \E c \in Outcomes, kept \in Bool :
          reporters = <<>> /\ ra_do_switch(c[1], c[2], TRUE, kept)
    \/ \E r \in DOMAIN reporters, c \in Outcomes, rev \in Revs :
          reporter_set_path(r, c[1], "a", rev, FALSE, "omitted", "NULL", c[2])
    \/ \E r \in DOMAIN reporters, c \in Outcomes :
          reporter_delete_path(r, c[1], "a", c[2])
    \/ \E r \in DOMAIN reporters, err \in Bool, freed \in {"ran", "nothing"} :
          reporter_finish(r, err, freed)
    \/ \E r \in DOMAIN reporters, err \in Bool : reporter_abort(r, err)

SpecUpdate == Init /\ [][NextUpdate]_vars

\* One report and the entries the caller makes in it.
NextReport ==
    \/ \E c \in Outcomes : reporters = <<>> /\ ra_do_update(c[1], c[2], TRUE, TRUE)
    \/ \E r \in DOMAIN reporters, c \in Outcomes, rev \in {1, MaxRev},
          start_empty \in Bool, t \in Tokens, gToken \in {"NULL", "garbage"} :
          reporter_set_path(r, c[1], "a", rev, start_empty, t, gToken, c[2])
    \/ \E r \in DOMAIN reporters, c \in Outcomes, path \in Paths :
          reporter_delete_path(r, c[1], path, c[2])
    \/ \E r \in DOMAIN reporters, c \in Outcomes, rev, gRev \in {1, MaxRev},
          gToken \in {"NULL", "garbage"} :
          reporter_link_path(r, c[1], "b", "v", rev, FALSE, "omitted",
                             gRev, FALSE, gToken, c[2])

SpecReport == Init /\ [][NextReport]_vars

\* The life of a session: opened, used while libsvn reports progress, destroyed.
NextOpen ==
    \/ \E parsed, alloc \in Bool, url \in Urls, progress_cb \in Callbacks,
          fail \in {"none", "callbacks", "open"} :
          ra_new(parsed, alloc, url, progress_cb, fail)
    \/ ra_dealloc
    \/ \E parsed, err, raises \in Bool, n \in 0..MaxProgress,
          freed \in {"ran", "nothing"} :
          Progressing("check_path", parsed, err, n, raises, freed)
    \/ \E err, raises \in Bool, n \in 0..MaxProgress, freed \in {"ran", "nothing"} :
          Progressing("get_latest_revnum", TRUE, err, n, raises, freed)
    \/ \E parsed, err \in Bool, url \in Urls : ra_reparent(parsed, url, err)

SpecOpen == Init /\ [][NextOpen]_vars

\* get_file_revs over every range and handler behaviour.
NextFileRevs ==
    \E parsed, err \in Bool, path \in Paths, start, end \in Revs,
       qual \in SUBSET Revs :
       \E raises \in SUBSET DOMAIN Select(Walk(start, end), qual) :
          ra_get_file_revs(parsed, path, start, end, qual, raises, err)

SpecFileRevs == Init /\ [][NextFileRevs]_vars

\* The receiver of get_log over the entries libsvn may hand to it.
NextLogEntry ==
    \E changed_paths \in LogChanges, revision \in Revs, author \in {"NULL", "author"},
       date \in {"NULL", "date"}, message \in {"NULL", "message"}, raises \in Bool :
       Receives(changed_paths, revision, author, date, message, raises)

SpecLogEntry == Init /\ [][NextLogEntry]_vars

\* One edit driven by libsvn, seen from its files and their window streams.
NextDelta ==
    \/ \E raises \in Bool : py_cb_editor_add_file(raises)
    \/ \E f \in DOMAIN driven.files, raises \in Bool, fn \in {"handler", "None"} :
          py_cb_editor_apply_textdelta(f, raises, fn)
    \/ \E st \in DOMAIN driven.streams, window \in 0..Len(Windows), raises \in Bool :
          py_txdelta_window_handler(st, window, raises)
    \/ \E f \in DOMAIN driven.files, text_checksum \in {"NULL", "sum"}, raises \in Bool :
          py_cb_editor_close_file(f, text_checksum, raises)
    \/ \E raises \in Bool : py_cb_editor_abort_edit(raises)

SpecDelta == Init /\ [][NextDelta]_vars

CloseOps == {"dir_close", "file_close"}
HandleOps ==
    {"delete_entry", "add_directory", "open_directory", "dir_change_prop",
     "dir_close", "absent_directory", "add_file", "open_file", "absent_file",
     "apply_textdelta", "file_change_prop", "file_close"}
EditorOps == HandleOps \cup {"set_target_revision", "open_root", "close_edit", "abort_edit"}
PathOps == {"set_path", "delete_path", "link_path"}
ReporterOps == PathOps \cup {"finish", "abort"}

\* What every method of the binding does with a call: one call to the underlying
\* object when the arguments parse, none otherwise, and success exactly when that
\* call returned no error.
PassedThrough ==
    /\ last.fwd = (IF last.parsed THEN 1 ELSE 0)
    /\ last.ok = (last.parsed /\ ~last.err)

\* C1 as stated: close() on a directory handle fails while a child handle produced
\* from it is still open, and the parent stays open after the failed close.
C1_CloseFailsWithOpenChild ==
    (last.op = "dir_close" /\ last.pre.kids) =>
        (~last.ok /\ objs[last.obj].open)

\* C1 amended: close() on a directory handle with a child still open is passed to
\* the underlying close_directory like any other close, once, and fails exactly
\* when that call returns an error; only a close that fails leaves the handle open.
C1_CloseWithOpenChildPassedThrough ==
    (last.op = "dir_close" /\ last.pre.kids) =>
        /\ PassedThrough
        /\ last.fwd = 1
        /\ objs[last.obj].open = (last.pre.open /\ last.err)

\* C1 witness: a close() succeeded on a directory handle whose child is still open.
C1_Witness ==
    /\ last.op = "dir_close"
    /\ last.pre.kids
    /\ last.ok
    /\ HasOpenChild(last.obj)

C4_ReporterCallsFailAfterEnd ==
    (last.op \in ReporterOps /\ last.pre.done # "no") => ~last.ok

\* C4 amended: after finish or abort, set_path, delete_path, link_path, finish and
\* abort are still passed to the underlying reporter, and fail exactly when the
\* arguments do not parse or the underlying call returns an error; a path call
\* that parses adds its entry to what the underlying report received.
C4_ReporterCallsPassedThroughAfterEnd ==
    (last.op \in ReporterOps /\ last.pre.done # "no") =>
        /\ PassedThrough
        /\ last.op \in PathOps =>
              LET sent == reporters[last.rep].report IN
              /\ Len(sent) = last.pre.sent + last.fwd
              /\ last.parsed => sent[Len(sent)] = last.entry

\* C4 witness: set_path succeeded after finish, and its entry reached the report.
C4_Witness ==
    /\ last.op = "set_path"
    /\ last.pre.done = "finished"
    /\ last.ok
    /\ Len(reporters[last.rep].report) = last.pre.sent + 1

SessionOps ==
    {"get_uuid", "reparent", "get_latest_revnum", "get_log", "get_repos_root",
     "replay", "rev_proplist", "change_rev_prop", "get_dir", "get_lock",
     "check_path", "has_capability", "lock", "unlock", "get_locks",
     "get_locations", "get_file_revs", "do_update", "do_switch",
     "get_commit_editor"}

\* The destructions a pool handed to an object must have seen: none while the
\* object is alive, one once it is gone.
Owed(live) == IF live THEN 0 ELSE 1

\* C5 as stated: the temporary pool of a session operation is released exactly
\* once on every exit path: before the operation returns, or, when it was handed to
\* the returned Reporter/Editor, when that object is destroyed; no pool is left
\* without anybody to release it.
C5_PoolReleasedOnce ==
    /\ (last.op \in SessionOps /\ last.tmp.created) =>
          IF last.tmp.handed
          THEN last.tmp.destroys = 0 /\ last.tmp.live
          ELSE last.tmp.destroys = 1
    /\ \A i \in DOMAIN pools \ {ra.pool} :
          /\ pools[i].owner # "none"
          /\ \A r \in DOMAIN reporters :
                reporters[r].pool = i => pools[i].destroys = Owed(reporters[r].live)
          /\ \A o \in DOMAIN objs :
                (objs[o].type = "Editor" /\ objs[o].pool = i) =>
                    pools[i].destroys = Owed(objs[o].live)

Notified(cbs) == {cbs[i].path : i \in DOMAIN cbs}
OncePerPath(cbs, given) ==
    /\ Notified(cbs) = given
    /\ Len(cbs) = Cardinality(given)

\* C7 as stated: a batch lock over N paths that the server processes invokes the
\* callback exactly N times, once per path, with an error for the paths that
\* failed and a lock result for the others, and the call itself returns success.
C7_LockBatchSucceeds ==
    (last.op = "lock" /\ last.parsed /\ ~last.err) =>
        /\ OncePerPath(last.cbs, last.given)
        /\ \A i \in DOMAIN last.cbs :
              (last.cbs[i].err = "None") = (last.cbs[i].svn_lock # {})
        /\ last.ok

\* C8 as stated: every invocation of the lock-notification callback during bulk
\* lock/unlock is for one path of the batch with is_lock telling lock from unlock,
\* each path is notified exactly once, a locked path comes with its lock and no
\* error, and a failed path with its error.
C8_LockCallbackArguments ==
    (last.op \in {"lock", "unlock"} /\ last.parsed /\ ~last.err) =>
        /\ OncePerPath(last.cbs, last.given)
        /\ \A i \in DOMAIN last.cbs :
              LET cb == last.cbs[i] IN
              /\ cb.do_lock = (last.op = "lock")
              /\ cb.svn_lock # {} => (cb.lock = cb.svn_lock /\ cb.err = "None")
              /\ (cb.do_lock /\ cb.svn_lock = {}) => cb.err # "None"

DeliveredRevs == [i \in DOMAIN last.delivered |-> last.delivered[i].rev]

\* C9 as stated: get_log with valid arguments delivers the qualifying entries to
\* the callback, in strictly decreasing revision order when start > end and
\* strictly increasing order when start < end, and at most limit of them when
\* limit > 0.
C9_GetLogDeliversInOrder ==
    (last.op = "get_log" /\ last.asked.valid /\ ~last.err) =>
        LET a == last.asked
            d == DeliveredRevs
        IN
        /\ d = Qualifying(a.start, a.end, a.limit, a.qual)
        /\ \A i, j \in DOMAIN d :
              i < j => IF a.start > a.end THEN d[i] > d[j] ELSE d[i] < d[j]
        /\ a.limit > 0 => Len(d) <= a.limit

\* C10 as stated: the callback is invoked once per delivered entry, and once an
\* invocation has failed no further entry is delivered and get_log fails.
C10_CallbackFailureStopsLog ==
    last.op = "get_log" =>
        /\ \A i, j \in DOMAIN last.delivered :
              i # j => last.delivered[i].rev # last.delivered[j].rev
        /\ \A i \in DOMAIN last.delivered :
              last.delivered[i].raised =>
                  (i = Len(last.delivered) /\ ~last.ok)

\* The bit of requested_fields that stands for each field of an entry.
DirentFieldBit ==
    [kind |-> 1, size |-> 2, has_props |-> 4, created_rev |-> 8, time |-> 16,
     last_author |-> 32]

\* C11: get_dir populates, for every returned entry, exactly the fields whose bit
\* is set in requested_fields and no other field; with requested_fields = 0x1
\* kind is the only populated field of every entry.
C11_GetDirPopulatesRequestedFields ==
    (last.op = "get_dir" /\ last.ok) =>
        \A n \in DOMAIN last.ret :
            /\ last.ret[n] \subseteq DOMAIN DirentFieldBit
            /\ \A f \in DOMAIN DirentFieldBit :
                  (f \in last.ret[n]) = ((last.arg \div DirentFieldBit[f]) % 2 = 1)
            /\ last.arg = 1 => last.ret[n] = {"kind"}

\* C11 witness: get_dir with requested_fields = 0x1 returned two entries.
C11_Witness ==
    /\ last.op = "get_dir"
    /\ last.ok
    /\ last.arg = 1
    /\ DOMAIN last.ret = EntryNames
    /\ \A n \in EntryNames : last.ret[n] = {"kind"}

\* C12 as stated: for an editor obtained from get_commit_editor the commit callback
\* is invoked exactly once, with (new revision, commit date, author), when
\* close_edit succeeds, and is not invoked when the edit is aborted or close_edit
\* fails.
C12_CommitCallbackOnceOnClose ==
    /\ (last.op = "close_edit" /\ last.ok /\ ~last.pre.closed /\ ~last.pre.aborted) =>
          last.commits = <<<<last.info.revision, last.info.date, last.info.author>>>>
    /\ (last.op = "close_edit" /\ ~last.ok) => last.commits = <<>>
    /\ last.op = "abort_edit" => last.commits = <<>>

\* C13 as stated: close() on a file handle fails while a window stream begun by
\* apply_textdelta on that handle has not received its terminating call.
C13_CloseFailsWithPendingStream ==
    (last.op = "file_close" /\ last.pre.stream = "pending") => ~last.ok

\* C13 amended: close() on a file handle whose window stream is still unterminated
\* is passed to the underlying close_file like any other close, and fails exactly
\* when its arguments do not parse or that call returns an error; a close that
\* succeeds leaves the handle closed.
C13_CloseWithPendingStreamPassedThrough ==
    (last.op = "file_close" /\ last.pre.stream = "pending") =>
        /\ PassedThrough
        /\ objs[last.obj].open = (last.pre.open /\ ~last.ok)

\* C13 witness: close() succeeded on a file handle right after apply_textdelta
\* succeeded on it, no window having been sent.
C13_Witness ==
    /\ last.op = "file_close"
    /\ last.pre.stream = "pending"
    /\ last.pre.open
    /\ last.ok
    /\ ~objs[last.obj].open

\* C14 as stated: the window handler the consumer returned from apply_textdelta is
\* held by the binding until the terminating (no-window) call and released exactly
\* then, once: before it a reference is held, after it none is.
C14_HandlerReleasedAtTerminator ==
    \A st \in DOMAIN driven.streams :
        LET stream == driven.streams[st] IN
        IF stream.ended
        THEN stream.refs = 0 /\ stream.released = 1
        ELSE stream.refs >= 1 /\ stream.released = 0

\* C15 as stated: the windows of a stream reach the consumer's handler in the
\* order they were produced, each once, followed by exactly one terminating call;
\* and no second stream is started on a file while one is unterminated.
C15_WindowsInOrderThenTerminator ==
    /\ \A st \in DOMAIN driven.streams :
          LET stream == driven.streams[st] IN
          stream.fn = "handler" =>
              /\ [i \in DOMAIN stream.received |-> stream.received[i].args]
                    = [i \in DOMAIN stream.produced |->
                          WindowArgs(Windows[stream.produced[i]].window)]
              /\ stream.terminators = (IF stream.ended THEN 1 ELSE 0)
    /\ \A s1, s2 \in DOMAIN driven.streams :
          (s1 # s2 /\ driven.streams[s1].file = driven.streams[s2].file) =>
              (driven.streams[s1].ended \/ driven.streams[s2].ended)

RECURSIVE CopyRun(_, _, _)
\* buf extended with n of its own characters starting after position from; the
\* run may reach into what it appends.
CopyRun(buf, from, n) ==
    IF n = 0 THEN buf ELSE CopyRun(Append(buf, buf[from + 1]), from + 1, n - 1)

RECURSIVE RunOps(_, _, _, _, _)
\* The target view the instructions ops[i..] build on top of tview.
RunOps(ops, i, sview, new_data, tview) ==
    IF i > Len(ops) THEN tview
    ELSE LET code == ops[i][1]
             offset == ops[i][2]
             length == ops[i][3]
             next == IF code = 0 THEN tview \o SubSeq(sview, offset + 1, offset + length)
                     ELSE IF code = 1 THEN CopyRun(tview, offset, length)
                     ELSE tview \o SubSeq(new_data, offset + 1, offset + length)
         IN RunOps(ops, i + 1, sview, new_data, next)

\* What a consumer makes of one call of its handler, applied to base.
ApplyArgs(base, args) ==
    RunOps(args[5], 1, SubSeq(base, args[1] + 1, args[1] + args[2]), args[6], <<>>)

RECURSIVE ConsumerText(_, _)
\* The text the consumer has after the calls received[i..].
ConsumerText(received, i) ==
    IF i > Len(received) THEN <<>>
    ELSE ApplyArgs(Base, received[i].args) \o ConsumerText(received, i + 1)

RECURSIVE ExpectedText(_, _)
\* The text the windows produced[i..] stand for.
ExpectedText(produced, i) ==
    IF i > Len(produced) THEN <<>>
    ELSE Windows[produced[i]].tview \o ExpectedText(produced, i + 1)

\* The consumer of stream st saw every window and raised on none.
Replayed(st) ==
    LET stream == driven.streams[st] IN
    /\ stream.fn = "handler"
    /\ stream.ended
    /\ \A i \in DOMAIN stream.received : ~stream.received[i].raised

\* The text half of C16.
TextReproduced ==
    \A st \in DOMAIN driven.streams :
        Replayed(st) =>
            ConsumerText(driven.streams[st].received, 1)
                = ExpectedText(driven.streams[st].produced, 1)

\* C16 as stated: a stream of N windows followed by the terminator, applied in
\* order to a known base, reproduces exactly the expected text, and the checksum
\* that comes with the file's close is the checksum of that text.
C16_StreamReproducesTextAndChecksum ==
    /\ TextReproduced
    /\ (last.op = "cb_close_file" /\ last.text_checksum # "NULL") =>
          last.args = <<last.text_checksum>>

\* ghost: a directory or file handle of the edit of o that no close() has
\* succeeded on.
OpenHandles(o) ==
    \E c \in DOMAIN objs :
        objs[c].edit = objs[o].edit /\ objs[c].type # "Editor" /\ objs[c].open

\* C17 as stated: close_edit fails while the root handle or one of its descendants
\* is still open, and abort_edit succeeds at any point of the edit.
C17_CloseEditNeedsAllClosed ==
    /\ (last.op = "close_edit" /\ OpenHandles(last.obj)) => ~last.ok
    /\ last.op = "abort_edit" => last.ok

\* C17 amended: close_edit with the root or a descendant still open is passed to
\* the underlying close_edit once and fails exactly when that call returns an
\* error; abort_edit is passed to the underlying abort_edit once at any point of
\* the edit and fails exactly when that call returns an error.
C17_CloseEditAndAbortPassedThrough ==
    /\ (last.op = "close_edit" /\ OpenHandles(last.obj)) =>
          (PassedThrough /\ last.fwd = 1)
    /\ last.op = "abort_edit" => (PassedThrough /\ last.fwd = 1)

\* C17 witness: close_edit succeeded while a handle of the edit was still open.
C17_Witness ==
    /\ last.op = "close_edit"
    /\ OpenHandles(last.obj)
    /\ last.ok
    /\ edits[objs[last.obj].edit].closed

\* ghost: the root handles open_root has produced for the Editor o.
Roots(o) == {c \in DOMAIN objs : objs[c].parent = o}

C19_SetTargetRevisionOnlyBeforeRoot ==
    (last.op = "set_target_revision" /\ Roots(last.obj) # {}) => ~last.ok

\* C19 amended: set_target_revision after open_root is passed to the underlying
\* set_target_revision like one made before it, and fails exactly when its
\* arguments do not parse or that call returns an error.
C19_SetTargetRevisionPassedThrough ==
    (last.op = "set_target_revision" /\ Roots(last.obj) # {}) => PassedThrough

\* C19 witness: set_target_revision succeeded on an Editor that has a root handle.
C19_Witness ==
    /\ last.op = "set_target_revision"
    /\ Roots(last.obj) # {}
    /\ last.ok
    /\ last.fwd = 1

\* ghost: when the call recorded in `last` was made, a Reporter of the session was
\* neither finished nor aborted, or an Editor neither closed nor aborted.  What
\* the call itself returned is left out.
InFlightBefore ==
    LET made == last.op \in {"do_update", "do_switch", "get_commit_editor"} /\ last.ok
        newReporter == IF made /\ last.op # "get_commit_editor"
                       THEN {Len(reporters)} ELSE {}
        newEdit == IF made /\ last.op = "get_commit_editor" THEN {Len(edits)} ELSE {}
    IN
    \/ \E r \in DOMAIN reporters \ newReporter :
          reporters[r].live /\ reporters[r].done = "no"
    \/ \E e \in DOMAIN edits \ newEdit :
          objs[edits[e].obj].live /\ ~edits[e].closed /\ ~edits[e].aborted

C21_EditorDrivenOnFinishOnly ==
    \A r \in DOMAIN reporters :
        /\ reporters[r].done \in {"no", "aborted"} => reporters[r].calls = <<>>
        /\ reporters[r].done = "finished" => reporters[r].calls = EditorDrive

\* C22 as stated: abort_edit on an editor and abort on a reporter can be called in
\* any state, and when they have returned the resources of the operation are
\* released: its pool, and the references held on the handles of the edit.
C22_AbortReleasesEverything ==
    /\ (last.op = "abort_edit" /\ last.ok) => ~pools[objs[last.obj].pool].live
    /\ (last.op = "abort" /\ last.ok) => ~pools[reporters[last.rep].pool].live
    /\ last.op = "cb_abort_edit" =>
          /\ \A f \in DOMAIN driven.files : driven.files[f].refs = 0
          /\ \A st \in DOMAIN driven.streams : driven.streams[st].refs = 0

\* C23 as stated: when the driver closes a file with a text checksum the consumer's
\* close() receives exactly that checksum, and when it closes the file without one
\* the consumer's close() is called with no argument.
C23_CloseFileForwardsChecksum ==
    last.op = "cb_close_file" =>
        last.args = (IF last.text_checksum = "NULL" THEN <<>>
                     ELSE <<last.text_checksum>>)

\* What the report should receive for a call: the call itself, with an omitted
\* lock token and None both standing for no token.
Entry(call) ==
    IF call[1] = "delete_path" THEN call
    ELSE [call EXCEPT ![Len(call)] = IF @ \in {"omitted", "None"} THEN "NULL" ELSE @]

\* C24 as stated: the entries the underlying report received are the set_path,
\* delete_path and link_path calls the caller made, in call order and with exactly
\* the caller's arguments.
C24_ReportEqualsCalls ==
    \A r \in DOMAIN reporters :
        reporters[r].report = [i \in DOMAIN reporters[r].asked |->
                                  Entry(reporters[r].asked[i])]

\* C25 as stated: after a successful reparent(new_url) the url the session holds
\* and shows in its repr is new_url; after a failed reparent it is what it was.
C25_ReparentChangesUrl ==
    last.op = "reparent" =>
        IF last.ok
        THEN ra.url = last.arg /\ ra_repr = <<"RemoteAccess(", last.arg, ")">>
        ELSE ra.url = last.held

\* C26 as stated: the outcome of a session operation does not depend on the
\* progress callback: whatever the callback is (None included), returns or raises,
\* a run with the same arguments and the same answers of libsvn ends the same way,
\* with the same result and no exception of the callback's left behind.
C26_ProgressCallbackNotConsulted ==
    (last.op \in SessionOps /\ "progress" \in DOMAIN last) =>
        \A fn \in Callbacks, raises \in Bool, freed \in {"ran", "nothing"} :
            Progress(fn, last.parsed, last.n, raises, freed).pending
                = last.progress.pending

\* C27 as stated: destroying a session releases the transport pool and every
\* reference taken at open, once each; and when open fails, what it had acquired
\* is released before the failure is returned.
C27_SessionReleasedOnce ==
    /\ last.op = "dealloc" =>
          /\ ra.refs = [url |-> 0, auth |-> 0]
          /\ pools[ra.pool].destroys = 1
    /\ (last.op = "new" /\ ~last.ok) =>
          /\ last.refs = [url |-> 0, auth |-> 0]
          /\ last.pool # 0 => pools[last.pool].destroys = 1

\* C28 as stated: get_file_revs calls the handler once per revision, in revision
\* order, each time with the properties of that revision and with a text-delta
\* window stream: a handler that receives the windows of the revision.
C28_FileRevsWithWindowStream ==
    (last.op = "get_file_revs" /\ last.ok) =>
        /\ Len(last.delivered) = Len(last.asked.revs)
        /\ \A i \in DOMAIN last.delivered :
              /\ last.delivered[i].args[2] = last.asked.revs[i]
              /\ last.delivered[i].args[3].items = RevProps(last.asked.revs[i]).items
              /\ last.delivered[i].delta_handler # "unset"

\* The name under which the operation recorded in `last` was called.
MethodName(op) ==
    IF op \in {"dir_close", "file_close", "close_edit"} THEN "close"
    ELSE IF op \in {"dir_change_prop", "file_change_prop"} THEN "change_prop"
    ELSE IF op = "abort_edit" THEN "abort"
    ELSE op

C30_ChangePropDeliversValue ==
    (last.op \in {"dir_change_prop", "file_change_prop"} /\ last.parsed) =>
        last.arg = last.value

\* C31: a log entry reaches the callback with its revision number, with a property
\* map holding the log message, the author and the date exactly for those that
\* are present, and with changed paths that are None exactly when none were
\* supplied and else one (action, copy-from path, copy-from revision) per path.
C31_LogEntryConverted ==
    last.op = "log_entry" =>
        LET given == last.given
            call == last.call
            present == {name \in RevisionPropNames :
                           \/ name = "svn:log" /\ given.message # "NULL"
                           \/ name = "svn:author" /\ given.author # "NULL"
                           \/ name = "svn:date" /\ given.date # "NULL"}
        IN
        /\ call.rev = given.revision
        /\ DOMAIN call.revprops = present
        /\ "svn:log" \in present => call.revprops["svn:log"] = given.message
        /\ "svn:author" \in present => call.revprops["svn:author"] = given.author
        /\ "svn:date" \in present => call.revprops["svn:date"] = given.date
        /\ call.changed_paths.none = given.changed_paths.null
        /\ ~given.changed_paths.null =>
              /\ DOMAIN call.changed_paths.items = DOMAIN given.changed_paths.items
              /\ \A key \in DOMAIN given.changed_paths.items :
                    LET val == given.changed_paths.items[key] IN
                    /\ call.changed_paths.items[key][1] = val.action
                    /\ call.changed_paths.items[key][2] =
                          (IF val.copyfrom_path = "NULL" THEN "None"
                           ELSE val.copyfrom_path)
                    /\ call.changed_paths.items[key][3] = val.copyfrom_rev

\* C31 witness: an entry with two changed paths, one of them copied, reached the
\* callback with a date and a message and without an author.
C31_Witness ==
    /\ last.op = "log_entry"
    /\ DOMAIN last.call.changed_paths.items = {"a", "b"}
    /\ last.call.changed_paths.items["b"] = <<"A", "a", 1>>
    /\ DOMAIN last.call.revprops = {"svn:log", "svn:date"}
    /\ last.given.author = "NULL"

\* The callbacks of py_editor and the window handler, as recorded in `last`.
DrivenOps ==
    {"cb_add_file", "cb_apply_textdelta", "window_handler", "cb_close_file",
     "cb_abort_edit"}

\* C32 as stated: when a method of the caller's editor or handle fails inside a
\* py_cb_editor_* callback or the window handler, the callback returns an error to
\* the driver, and the driver, stopped by it, delivers nothing more of that stream.
C32_ConsumerFailureStopsDriver ==
    /\ (last.op \in DrivenOps /\ last.raised) => last.error
    /\ \A st \in DOMAIN driven.streams :
          \A i \in DOMAIN driven.streams[st].received :
              driven.streams[st].received[i].raised =>
                  i = Len(driven.streams[st].received)

\* One session, one commit edit and one report, whose objects the caller drops in
\* any order: neither a handle nor a Reporter holds a reference to what its pool
\* hangs from.
NextLifetime ==
    \/ objs = <<>> /\ get_commit_editor(TRUE, FALSE, TRUE, TRUE)
    \/ ra_do_update(TRUE, FALSE, TRUE, TRUE)
    \/ \E o \in DOMAIN objs : py_editor_open_root(o, TRUE, FALSE)
    \/ \E o \in DOMAIN objs : py_dir_editor_add_directory(o, TRUE, FALSE)
    \/ \E o \in DOMAIN objs : py_dir_editor_add_file(o, TRUE, FALSE)
    \/ \E o \in DOMAIN objs : py_file_editor_close(o, TRUE, FALSE)
    \/ \E o \in DOMAIN objs : py_dir_editor_close(o, FALSE)
    \/ \E o \in DOMAIN objs : py_editor_close(o, FALSE, CommitInfo(MaxRev), FALSE, "ran")
    \/ \E r \in DOMAIN reporters :
          reporter_set_path(r, TRUE, "a", 1, FALSE, "omitted", "garbage", FALSE)
    \/ \E r \in DOMAIN reporters : reporter_finish(r, FALSE, "ran")
    \/ \E o \in DOMAIN objs : py_editor_dealloc(o)
    \/ \E r \in DOMAIN reporters : reporter_dealloc(r)
    \/ ra_dealloc

SpecLifetime == Init /\ [][NextLifetime]_vars

\* C33 as stated: the pool of an edit is destroyed at most once, and whenever a
\* method of the Editor or of one of its handles runs, or the Editor is destroyed,
\* the pool the object points to has not been destroyed yet.  The session is alive
\* throughout, so that the pool can only have gone with the Editor.
C33_EditPoolOutlivesHandles ==
    /\ \A o \in DOMAIN objs : pools[objs[o].pool].destroys <= 1
    /\ (ra.live /\ "obj" \in DOMAIN last) => last.pre.poolLive

\* C34 as stated: in whatever order the session and the Reporters and Editors it
\* returned are destroyed, no pool is destroyed a second time (an object destroys
\* its pool only while the pool is still there), and no method of a Reporter or of
\* an Editor runs once the pool it works in has gone with the session.
C34_SessionOutlivesItsObjects ==
    /\ \A i \in DOMAIN pools : pools[i].destroys <= 1
    /\ last.op \in {"editor_dealloc", "reporter_dealloc"} => last.pre.poolLive
    /\ ("rep" \in DOMAIN last /\ last.op # "reporter_dealloc") =>
           pools[reporters[last.rep].pool].live
    /\ ("obj" \in DOMAIN last /\ objs[last.obj].type = "Editor") => last.pre.poolLive

\* C35 as stated: in a driven edit the references the binding took on a handle when
\* the consumer returned it are all released once the handle has been closed,
\* whether or not the consumer's close() succeeded, none is released before that or
\* twice, and after abort_edit the binding holds no reference to any handle.
C35_HandleReferencesReleasedAtClose ==
    /\ \A f \in DOMAIN driven.files :
          /\ driven.files[f].refs >= 0
          /\ driven.files[f].open => driven.files[f].released = 0
          /\ ~driven.files[f].open => driven.files[f].refs = 0
    /\ last.op = "cb_abort_edit" => \A f \in DOMAIN driven.files : driven.files[f].refs = 0

====
